---- MODULE Spec2Model ----
(***************************************************************************)
(* State-machine model of the Untrace privacy infrastructure.              *)
(*                                                                         *)
(* Part 1: the on-chain privacy pool program (privacy-program/src/lib.rs,  *)
(* state.rs, instructions.rs) together with the hashing helpers of         *)
(* common/src/crypto.rs that it and its client use.                        *)
(*                                                                         *)
(* Byte strings.  A 32-byte value is either a literal byte pattern,        *)
(* <<"raw", n>> (n the pattern read as a natural number, so that           *)
(* <<"raw", 0>> is [0u8; 32]), or the output of SHA3-256 over a sequence   *)
(* of parts, <<"sha3", parts>>.  SHA3-256 is taken as collision free and   *)
(* its outputs as distinct from the literal patterns callers choose.       *)
(***************************************************************************)
EXTENDS Integers, Sequences, FiniteSets, TLC

\* ------------------------------------------------------------- bounds ---
MaxCommitmentAccounts == 2     \* commitment accounts the ledger can hold
MaxNullifierAccounts == 2      \* nullifier accounts the ledger can hold
Depth == 2                     \* depth D of the accumulator described by the design
MaxPlainLen == 2               \* longest plaintext given to encrypt_data
MaxBatches == 2                \* batches a BatchProcessor seals in one run
WordBits == 3                  \* bits of the machine word that stands for u64
FeeWordBits == 20              \* bits of that word where basis points are applied
MaxPendingOrders == 1          \* orders a PrivateOrderFlow holds in one run
MaxEvents == 4                 \* events recorded by a MevDetector in one run
MaxAllocations == 2            \* allocations a Treasury creates in one run

\* ------------------------------------------------------- input domains ---
OnePool == {1}
MinPoolSizes == {0, 1, 2}
Authorities == {"alice", "bob"}
Recipients == {"carol"}

\* ---------------------------------------------------------- byte model ---
Raw(n) == <<"raw", n>>
Lit(s) == <<"lit", s>>
Zero32 == Raw(0)

Sha3_256(parts) == <<"sha3", parts>>

RECURSIVE BitXor(_, _)
BitXor(a, b) ==
    IF a = 0 THEN b
    ELSE IF b = 0 THEN a
    ELSE (((a % 2) + (b % 2)) % 2) + (2 * BitXor(a \div 2, b \div 2))

\* for i in 0..32 { new_root[i] ^= commitment[i] }
XorBytes32(a, b) == Raw(BitXor(a[2], b[2]))

Commitments == { Raw(1), Raw(2) }
Nullifiers == { Raw(5), Raw(6) }
Secrets == { Raw(7) }

\* ---------------------------------------------------- common/crypto.rs ---
generate_nullifier(secret, commitment) ==
    Sha3_256(<<secret, commitment, Lit("NULLIFIER")>>)

\* A Vec<u8>: its length and the bytes it was cut from.
generate_zk_proof(commitment, nullifier, secret) ==
    [len |-> 32,
     bytes |-> Sha3_256(<<commitment, nullifier, secret, Lit("ZK_PROOF")>>)]

ArrayLen32 == 32

\* Mutant: a proof shorter than a digest is accepted as well.
verify_zk_proof_at_most(proof, commitment, nullifier) ==
    proof.len <= 32 /\ ArrayLen32 = 32 /\ ArrayLen32 = 32

verify_zk_proof(proof, commitment, nullifier) ==
    proof.len = 32 /\ ArrayLen32 = 32 /\ ArrayLen32 = 32

\* Mutant: the index is not halved from one level to the next.
RECURSIVE merkle_fold_same_bit(_, _, _)
merkle_fold_same_bit(computed_hash, proof, current_index) ==
    IF proof = <<>> THEN computed_hash
    ELSE LET sibling == Head(proof)
             next == IF current_index % 2 = 0
                     THEN Sha3_256(<<computed_hash, sibling>>)
                     ELSE Sha3_256(<<sibling, computed_hash>>)
         IN  merkle_fold_same_bit(next, Tail(proof), current_index)

RECURSIVE merkle_fold(_, _, _)
merkle_fold(computed_hash, proof, current_index) ==
    IF proof = <<>> THEN computed_hash
    ELSE LET sibling == Head(proof)
             next == IF current_index % 2 = 0
                     THEN Sha3_256(<<computed_hash, sibling>>)
                     ELSE Sha3_256(<<sibling, computed_hash>>)
         IN  merkle_fold(next, Tail(proof), current_index \div 2)

verify_merkle_proof(leaf, proof, root, index) ==
    merkle_fold(leaf, proof, index) = root

\* encrypt_data / decrypt_data.  A byte is a number in 0..255.  BLAKE3 of the
\* shared secret is needed byte by byte (it is the XOR keystream), so it is a
\* fixed table that differs from secret to secret; BLAKE3 of ciphertext and
\* nonce is only compared, so it is symbolic and collision free, also when
\* cut to its first 16 bytes.
KeyLen == 32
TagLen == 16

blake3_hash(shared_secret) ==
    [j \in 0 .. (KeyLen - 1) |-> ((shared_secret * 37) + (j * 11) + 5) % 256]

blake3_tag(ciphertext, nonce) ==
    [i \in 1 .. TagLen |-> <<"blake3", ciphertext, nonce, i>>]

xor_keystream(data, key) ==
    [i \in 1 .. Len(data) |-> BitXor(data[i], key[(i - 1) % KeyLen])]

encrypt_data(plaintext, shared_secret, nonce) ==
    LET key == blake3_hash(shared_secret)
        ciphertext == xor_keystream(plaintext, key)
    IN  [ciphertext |-> ciphertext, tag |-> blake3_tag(ciphertext, nonce)]

AuthFailed == [ok |-> FALSE, err |-> "Authentication failed", plaintext |-> <<>>]

\* Mutant: the keystream is read one byte off.
decrypt_data_shifted_key(ciphertext, shared_secret, nonce, tag) ==
    LET key == blake3_hash(shared_secret)
    IN  IF blake3_tag(ciphertext, nonce) # tag THEN AuthFailed
        ELSE [ok |-> TRUE, err |-> "",
              plaintext |-> [i \in 1 .. Len(ciphertext) |->
                                BitXor(ciphertext[i], key[i % KeyLen])]]

\* Mutant: the tag is not compared.
decrypt_data_unchecked(ciphertext, shared_secret, nonce, tag) ==
    [ok |-> TRUE, err |-> "",
     plaintext |-> xor_keystream(ciphertext, blake3_hash(shared_secret))]

decrypt_data(ciphertext, shared_secret, nonce, tag) ==
    LET key == blake3_hash(shared_secret)
        computed_tag == blake3_tag(ciphertext, nonce)
    IN  IF computed_tag # tag THEN AuthFailed
        ELSE [ok |-> TRUE, err |-> "", plaintext |-> xor_keystream(ciphertext, key)]

\* ------------------------------------------------------- program state ---
VARIABLES
    pools,               \* pool_id -> PrivacyPoolAccount, for the pool PDAs that exist
    commitmentAccounts,  \* the CommitmentAccounts, in the order they were created
    nullifierAccounts,   \* the NullifierAccounts, in the order they were created
    last,                \* the last instruction processed and its result
    aead,                \* one encrypt_data / decrypt_data exchange
    bp,                  \* a BatchProcessor and the last method called on it
    token,               \* a GovernanceToken and the last method called on it
    voting,              \* a VotingSystem, the last method called on it, and the
                         \* amount each standing delegation was made with
    gov,                 \* a GovernanceSystem, the last method called on it, and
                         \* the power each voter first voted with, per side
    treasury,            \* a Treasury and the last method called on it
    mk,                  \* the arguments of a verify_merkle_proof call and its result
    zkv,                 \* the arguments of a verify_zk_proof call and its result
    wallet,              \* an UntraceWallet's storage, its last pool call, and the
                         \* randomness each deposit returned for its commitment
    svc,                 \* an AntiMevService and the last method called on it
    det                  \* a MevDetector and every event recorded, in arrival order

poolVars == <<pools, commitmentAccounts, nullifierAccounts, last>>
vars ==
    <<pools, commitmentAccounts, nullifierAccounts, last, aead, bp, token, voting, gov,
      treasury, mk, zkv, wallet, svc, det>>
restVars == <<zkv, wallet, svc, det>>
nonPoolVars == <<aead, bp, token, voting, gov, treasury, mk, restVars>>
nonAeadVars == <<poolVars, bp, token, voting, gov, treasury, mk, restVars>>
nonBatchVars == <<poolVars, aead, token, voting, gov, treasury, mk, restVars>>
nonTokenVars == <<poolVars, aead, bp, voting, gov, treasury, mk, restVars>>
nonVotingVars == <<poolVars, aead, bp, token, gov, treasury, mk, restVars>>
nonGovVars == <<poolVars, aead, bp, token, voting, treasury, mk, restVars>>
nonMerkleVars == <<poolVars, aead, bp, token, voting, gov, treasury, restVars>>
nonTreasuryVars == <<poolVars, aead, bp, token, voting, gov, mk, restVars>>
oldVars == <<poolVars, aead, bp, token, voting, gov, treasury, mk>>
nonZkVars == <<oldVars, wallet, svc, det>>
nonWalletVars == <<oldVars, zkv, svc, det>>
nonServiceVars == <<oldVars, zkv, wallet, det>>
nonDetectorVars == <<oldVars, zkv, wallet, svc>>

\* The account types of state.rs (timestamps are written and never read).
TypeOK ==
    /\ \A p \in DOMAIN pools :
          /\ pools[p].pool_id = p
          /\ pools[p].commitment_count \in Nat
          /\ pools[p].min_pool_size \in Nat
          /\ pools[p].authority \in Authorities
          /\ pools[p].commitment_root[1] \in {"raw", "sha3"}
    /\ \A i \in DOMAIN commitmentAccounts :
          /\ commitmentAccounts[i].pool_id \in DOMAIN pools
          /\ commitmentAccounts[i].commitment[1] \in {"raw", "sha3"}
          /\ commitmentAccounts[i].nullifier[1] \in {"raw", "sha3"}
    /\ \A i \in DOMAIN nullifierAccounts :
          /\ nullifierAccounts[i].is_used \in BOOLEAN
          /\ nullifierAccounts[i].nullifier[1] \in {"raw", "sha3"}

\* Account data right after Anchor's `init`: all zero.
ZeroCommitmentAccount == [commitment |-> Zero32, nullifier |-> Zero32, pool_id |-> 0]
ZeroNullifierAccount == [nullifier |-> Zero32, is_used |-> FALSE]

\* The empty byte vector.
NoProof == [len |-> 0, bytes |-> Zero32]

Call(op, pool_id, min, c, n, zk, mp, res) ==
    [op |-> op, pool_id |-> pool_id, min_pool_size |-> min, commitment |-> c,
     nullifier |-> n, zk_proof |-> zk, merkle_proof |-> mp, result |-> res]

NoResult == [ok |-> FALSE, err |-> "", plaintext |-> <<>>]

AeadIdle ==
    [stage |-> "idle", plaintext |-> <<>>, shared_secret |-> 0, nonce |-> 0,
     ciphertext |-> <<>>, tag |-> <<>>, tampered |-> "no",
     dec_secret |-> 0, dec_nonce |-> 0, result |-> NoResult]

\* BatchProcessor::new; created_at of a batch is written and never read.
BatchProcessor_new(batch_size) ==
    [batch_size |-> batch_size, current_batch |-> <<>>, batch_queue |-> <<>>,
     next_batch_id |-> 1, op |-> "new", returned |-> <<>>]

\* The batch size of the processor built in test_batch_processor.
TestBatchSize == 3

\* GovernanceToken::new.  overflow_checks tells the build apart: with it an
\* integer overflow panics, without it the value wraps.
GovernanceToken_new(total_supply, overflow_checks) ==
    [total_supply |-> total_supply, circulating_supply |-> 0,
     balances |-> [a \in {} |-> 0], overflow_checks |-> overflow_checks,
     op |-> "new", result |-> "Ok", from |-> "none", to |-> "none", amount |-> 0]

TotalSupplies == {4}

\* VotingSystem::new (voting_period is stored and never read).
VotingSystem_new(quorum_threshold, overflow_checks) ==
    [quorum_threshold |-> quorum_threshold, votes |-> [p \in {} |-> 0],
     delegations |-> [a \in {} |-> 0], voting_power |-> [a \in {} |-> 0],
     overflow_checks |-> overflow_checks, op |-> "new", result |-> "Ok",
     delegated |-> [a \in {} |-> 0]]

QuorumThresholds == {3}

\* GovernanceSystem::new (the treasury is modelled on its own).
GovernanceSystem_new(token_supply, quorum_threshold, overflow_checks) ==
    [token |-> GovernanceToken_new(token_supply, overflow_checks),
     voting |-> VotingSystem_new(quorum_threshold, overflow_checks),
     proposals |-> [p \in {} |-> 0], next_proposal_id |-> 1,
     op |-> "new", result |-> "Ok", ballots |-> [p \in {} |-> 0]]

\* FeeConfig::default (the fee recipient is stored and never read).
DefaultTransactionFeeBp == 30
DefaultBridgeFeeBp == 50
DefaultPoolFeeBp == 20

FeeConfig_default ==
    [transaction_fee_bp |-> DefaultTransactionFeeBp,
     bridge_fee_bp |-> DefaultBridgeFeeBp,
     pool_fee_bp |-> DefaultPoolFeeBp]

\* Treasury::new; `returned` is what the last method handed back.
Treasury_new(overflow_checks) ==
    [balance |-> 0, fee_config |-> FeeConfig_default,
     revenue |-> [total_fees |-> 0, transaction_fees |-> 0, bridge_fees |-> 0,
                  pool_fees |-> 0],
     allocations |-> [a \in {} |-> 0], next_allocation_id |-> 1,
     overflow_checks |-> overflow_checks,
     op |-> "new", result |-> "Ok", arg |-> 0, returned |-> 0]

StartPools ==
    /\ pools = [p \in {} |-> 0]
    /\ commitmentAccounts = <<>>
    /\ nullifierAccounts = <<>>
    /\ last = Call("none", 0, 0, Zero32, Zero32, NoProof, <<>>, "Ok")

StartAead == aead = AeadIdle

StartBatch == bp = BatchProcessor_new(TestBatchSize)

StartToken == token \in { GovernanceToken_new(t, TRUE) : t \in TotalSupplies }

StartVoting == voting \in { VotingSystem_new(q, TRUE) : q \in QuorumThresholds }

StartGov ==
    gov \in { GovernanceSystem_new(t, q, TRUE) : t \in TotalSupplies, q \in QuorumThresholds }

StartTreasury == treasury = Treasury_new(TRUE)

MerkleCall(leaf, proof, root, index) ==
    [leaf |-> leaf, proof |-> proof, root |-> root, index |-> index,
     called |-> FALSE, result |-> FALSE]

StartMerkle == mk = MerkleCall(Zero32, <<>>, Zero32, 0)

ZkCall(proof, commitment, nullifier, result) ==
    [proof |-> proof, commitment |-> commitment, nullifier |-> nullifier,
     called |-> TRUE, result |-> result]

StartZk == zkv = [ZkCall(NoProof, Zero32, Zero32, FALSE) EXCEPT !.called = FALSE]

\* SecureStorage::new
SecureStorage_new == [commitments |-> <<>>, keypairs |-> <<>>]

StartWallet ==
    wallet = [storage |-> SecureStorage_new, deposited |-> <<>>, op |-> "new",
              commitment |-> Zero32, nullifier |-> Zero32]

\* TimeLockManager::new
TimeLockManager_new(min_lock_duration) ==
    [min_lock_duration |-> min_lock_duration, locked_transactions |-> <<>>]

ServiceCall(self, op, priority, instruction, batch_id, unlock_slot, slot, safe) ==
    [self EXCEPT !.op = op, !.priority = priority, !.instruction = instruction,
                 !.batch_id = batch_id, !.unlock_slot = unlock_slot, !.slot = slot,
                 !.safe = safe]

\* AntiMevService::new(config); PrivateOrderFlow::new has no pending orders.
AntiMevService_new(min_time_lock, batch_size) ==
    [time_lock |-> TimeLockManager_new(min_time_lock),
     batch_processor |-> BatchProcessor_new(batch_size),
     order_flow |-> [pending_orders |-> <<>>],
     op |-> "new", priority |-> "none", instruction |-> "none", batch_id |-> 0,
     unlock_slot |-> 0, slot |-> 0, safe |-> FALSE]

\* The time lock of the manager built in test_time_lock.
TestMinTimeLock == 10

StartService == svc = AntiMevService_new(TestMinTimeLock, TestBatchSize)

\* MevDetector::new
MevDetector_new(max_history) ==
    [history |-> <<>>, max_history |-> max_history, recorded |-> <<>>]

\* The history size of the detector built in test_mev_detector.
TestMaxHistory == 100

StartDetector == det = MevDetector_new(TestMaxHistory)

StartRest ==
    /\ StartZk
    /\ StartWallet
    /\ StartService
    /\ StartDetector

Init ==
    /\ StartPools
    /\ StartRest
    /\ StartAead
    /\ StartBatch
    /\ StartToken
    /\ StartVoting
    /\ StartGov
    /\ StartTreasury
    /\ StartMerkle

\* The commitments deposited into pool p, in insertion order.
RECURSIVE LeavesOf(_, _)
LeavesOf(accts, p) ==
    IF accts = <<>> THEN <<>>
    ELSE IF Head(accts).pool_id = p
         THEN <<Head(accts).commitment>> \o LeavesOf(Tail(accts), p)
         ELSE LeavesOf(Tail(accts), p)

leaves(p) == LeavesOf(commitmentAccounts, p)

\* The nullifiers recorded as used.
SpentOf(accts) == { accts[i].nullifier : i \in { j \in DOMAIN accts : accts[j].is_used } }
Spent == SpentOf(nullifierAccounts)

\* -------------------------------------- accumulator of the design (4.2) ---
node_hash(left, right) == Sha3_256(<<left, right>>)

\* Hash of the node at `level` (0 = leaves) and position idx of the depth-D
\* tree over ls; positions past the frontier hold the empty leaf.
RECURSIVE MerkleNode(_, _, _)
MerkleNode(ls, level, idx) ==
    IF level = 0
    THEN IF idx < Len(ls) THEN ls[idx + 1] ELSE Zero32
    ELSE node_hash(MerkleNode(ls, level - 1, 2 * idx),
                   MerkleNode(ls, level - 1, (2 * idx) + 1))

MerkleRoot(ls) == MerkleNode(ls, Depth, 0)

Sibling(idx) == IF idx % 2 = 0 THEN idx + 1 ELSE idx - 1

RECURSIVE PathFrom(_, _, _)
PathFrom(ls, level, idx) ==
    IF level = Depth THEN <<>>
    ELSE <<MerkleNode(ls, level, Sibling(idx))>> \o PathFrom(ls, level + 1, idx \div 2)

path_for(ls, index) == PathFrom(ls, 0, index)

\* ------------------------------------------------------- instruction inputs ---
\* The first k bytes of a byte vector.
Truncate(v, k) == [v EXCEPT !.len = k]

\* Proofs as the client builds them (privacy_pool.rs:117), one of them cut
\* short by a byte, and the empty byte vector.
ZkProofs ==
    { generate_zk_proof(Raw(1), n, s) : n \in Nullifiers, s \in Secrets }
        \cup { Truncate(generate_zk_proof(Raw(1), Raw(5), Raw(7)), 31), NoProof }

ZeroPath == [i \in 1 .. Depth |-> Zero32]

MerkleProofs(p) ==
    {<<>>, ZeroPath}
        \cup { path_for(leaves(p), i) : i \in 0 .. (Len(leaves(p)) - 1) }

EncryptedPayloads == {<<>>}

\* ------------------------------------------------ privacy-program/lib.rs ---
\* Mutant: the pool account is written whether or not it exists (init_if_needed).
initialize_pool_reinit(pool_id, min_pool_size, authority) ==
    /\ pools' = [q \in DOMAIN pools \cup {pool_id} |->
                    IF q = pool_id
                    THEN [pool_id |-> pool_id,
                          commitment_root |-> Zero32,
                          commitment_count |-> 0,
                          min_pool_size |-> min_pool_size,
                          authority |-> authority]
                    ELSE pools[q]]
    /\ last' = Call("initialize_pool", pool_id, min_pool_size, Zero32, Zero32,
                    NoProof, <<>>, "Ok")
    /\ UNCHANGED <<commitmentAccounts, nullifierAccounts>>

initialize_pool(pool_id, min_pool_size, authority) ==
    IF pool_id \in DOMAIN pools
    THEN \* `init` on the pool PDA: the account is already in use
         /\ last' = Call("initialize_pool", pool_id, min_pool_size, Zero32, Zero32,
                         NoProof, <<>>, "AccountInUse")
         /\ UNCHANGED <<pools, commitmentAccounts, nullifierAccounts>>
    ELSE /\ pools' = [q \in DOMAIN pools \cup {pool_id} |->
                        IF q = pool_id
                        THEN [pool_id |-> pool_id,
                              commitment_root |-> Zero32,
                              commitment_count |-> 0,
                              min_pool_size |-> min_pool_size,
                              authority |-> authority]
                        ELSE pools[q]]
         /\ last' = Call("initialize_pool", pool_id, min_pool_size, Zero32, Zero32,
                         NoProof, <<>>, "Ok")
         /\ UNCHANGED <<commitmentAccounts, nullifierAccounts>>

deposit_check(commitment_account) ==
    IF ~(commitment_account.commitment = Zero32) THEN "CommitmentExists" ELSE "Ok"

\* Mutant: the new root is computed without the root stored in the pool.
deposit_root_stale(commitment_root, commitment) == XorBytes32(Zero32, commitment)

deposit_root(commitment_root, commitment) == XorBytes32(commitment_root, commitment)

\* Mutant: the counter is advanced twice.
deposit_count_twice(commitment_count) == commitment_count + 2

deposit_count(commitment_count) == commitment_count + 1

\* Mutant: the count and the root are written to every pool account.
deposit_step_every_pool(pool_id, commitment, encrypted_data) ==
    /\ pool_id \in DOMAIN pools
    /\ LET pool == pools[pool_id]
           commitment_account == ZeroCommitmentAccount
           res == deposit_check(commitment_account)
       IN  /\ last' = Call("deposit", pool_id, 0, commitment, Zero32, NoProof, <<>>, res)
           /\ IF res = "Ok"
              THEN /\ commitmentAccounts' =
                        Append(commitmentAccounts,
                               [commitment |-> commitment, nullifier |-> Zero32,
                                pool_id |-> pool.pool_id])
                   /\ pools' = [q \in DOMAIN pools |->
                        [pools[q] EXCEPT
                            !.commitment_count = deposit_count(@),
                            !.commitment_root = deposit_root(@, commitment)]]
              ELSE UNCHANGED <<pools, commitmentAccounts>>
           /\ UNCHANGED nullifierAccounts

\* The deposit instruction: Anchor creates the commitment account, then the
\* handler runs.
deposit_step(pool_id, commitment, encrypted_data) ==
    /\ pool_id \in DOMAIN pools
    /\ LET pool == pools[pool_id]
           commitment_account == ZeroCommitmentAccount
           res == deposit_check(commitment_account)
       IN  /\ last' = Call("deposit", pool_id, 0, commitment, Zero32, NoProof, <<>>, res)
           /\ IF res = "Ok"
              THEN /\ commitmentAccounts' =
                        Append(commitmentAccounts,
                               [commitment |-> commitment, nullifier |-> Zero32,
                                pool_id |-> pool.pool_id])
                   /\ pools' = [pools EXCEPT
                        ![pool_id].commitment_count = deposit_count(@),
                        ![pool_id].commitment_root = deposit_root(@, commitment)]
              ELSE UNCHANGED <<pools, commitmentAccounts>>
           /\ UNCHANGED nullifierAccounts

\* deposit while the ledger of the model has room for a commitment account.
deposit(pool_id, commitment, encrypted_data) ==
    /\ Len(commitmentAccounts) < MaxCommitmentAccounts
    /\ deposit_step(pool_id, commitment, encrypted_data)

\* Mutant: the pool-size gate is left out.
withdraw_check_no_threshold(pool, nullifier_account, nullifier, zk_proof, merkle_proof) ==
    IF ~(nullifier_account.is_used = FALSE) THEN "NullifierUsed"
    ELSE IF ~verify_zk_proof(zk_proof, Zero32, nullifier) THEN "InvalidZKProof"
    ELSE "Ok"

\* The require! chain of withdraw; merkle_proof is an argument that no check reads.
withdraw_check(pool, nullifier_account, nullifier, zk_proof, merkle_proof) ==
    IF ~(pool.commitment_count >= pool.min_pool_size) THEN "InsufficientPoolSize"
    ELSE IF ~(nullifier_account.is_used = FALSE) THEN "NullifierUsed"
    ELSE IF ~verify_zk_proof(zk_proof, Zero32, nullifier) THEN "InvalidZKProof"
    ELSE "Ok"

withdraw_mark(nullifier_account, nullifier) ==
    [nullifier_account EXCEPT !.nullifier = nullifier, !.is_used = TRUE]

\* Mutant: the nullifier is marked before the proof is verified.
withdraw_effect_mark_before_proof(res, nullifier_account, nullifier) ==
    IF res \in {"Ok", "InvalidZKProof"}
    THEN Append(nullifierAccounts, withdraw_mark(nullifier_account, nullifier))
    ELSE nullifierAccounts

\* The nullifier accounts after the instruction: the account is written only
\* when every require! has passed; an error discards the transaction.
withdraw_effect(res, nullifier_account, nullifier) ==
    IF res = "Ok"
    THEN Append(nullifierAccounts, withdraw_mark(nullifier_account, nullifier))
    ELSE nullifierAccounts

\* Mutant: a successful withdraw takes the newest commitment out of the pool.
withdraw_removes_commitment(pool_id, nullifier, recipient, zk_proof, merkle_proof) ==
    /\ pool_id \in DOMAIN pools
    /\ LET pool == pools[pool_id]
           nullifier_account == ZeroNullifierAccount
           res == withdraw_check(pool, nullifier_account, nullifier, zk_proof, merkle_proof)
       IN  /\ (res = "Ok") => Len(nullifierAccounts) < MaxNullifierAccounts
           /\ last' = Call("withdraw", pool_id, 0, Zero32, nullifier, zk_proof,
                           merkle_proof, res)
           /\ nullifierAccounts' = withdraw_effect(res, nullifier_account, nullifier)
           /\ IF res = "Ok" /\ commitmentAccounts # <<>>
              THEN /\ commitmentAccounts' =
                        SubSeq(commitmentAccounts, 1, Len(commitmentAccounts) - 1)
                   /\ UNCHANGED pools
              ELSE UNCHANGED <<pools, commitmentAccounts>>

withdraw(pool_id, nullifier, recipient, zk_proof, merkle_proof) ==
    /\ pool_id \in DOMAIN pools
    /\ LET pool == pools[pool_id]
           nullifier_account == ZeroNullifierAccount
           res == withdraw_check(pool, nullifier_account, nullifier, zk_proof, merkle_proof)
       IN  /\ (res = "Ok") => Len(nullifierAccounts) < MaxNullifierAccounts
           /\ last' = Call("withdraw", pool_id, 0, Zero32, nullifier, zk_proof,
                           merkle_proof, res)
           /\ nullifierAccounts' = withdraw_effect(res, nullifier_account, nullifier)
           /\ UNCHANGED <<pools, commitmentAccounts>>

InitializePool(ids) ==
    \E pool_id \in ids, min_pool_size \in MinPoolSizes, authority \in Authorities :
        initialize_pool(pool_id, min_pool_size, authority)

Deposit(ids) ==
    \E pool_id \in ids, commitment \in Commitments, encrypted_data \in EncryptedPayloads :
        deposit(pool_id, commitment, encrypted_data)

Withdraw(ids) ==
    \E pool_id \in ids \cap DOMAIN pools, nullifier \in Nullifiers,
       recipient \in Recipients, zk_proof \in ZkProofs :
        \E merkle_proof \in MerkleProofs(pool_id) :
            withdraw(pool_id, nullifier, recipient, zk_proof, merkle_proof)

Next ==
    \/ InitializePool(OnePool) /\ UNCHANGED nonPoolVars
    \/ Deposit(OnePool) /\ UNCHANGED nonPoolVars
    \/ Withdraw(OnePool) /\ UNCHANGED nonPoolVars

Spec == Init /\ [][Next]_vars

\* -------------------------------------------- a pool filled past 2^Depth ---
Pow2(n) == 2 ^ n

\* One deposit more than a tree of depth Depth has leaves.
OverCapacity == Pow2(Depth) + 1

DepositOverCapacity(ids) ==
    \E pool_id \in ids, commitment \in Commitments, encrypted_data \in EncryptedPayloads :
        /\ Len(commitmentAccounts) < OverCapacity
        /\ deposit_step(pool_id, commitment, encrypted_data)

NextFull ==
    \/ InitializePool(OnePool) /\ UNCHANGED nonPoolVars
    \/ DepositOverCapacity(OnePool) /\ UNCHANGED nonPoolVars

SpecFull == Init /\ [][NextFull]_vars

\* ------------------------------------------------- two pools side by side ---
TwoPools == {1, 2}
TwoPoolMinSizes == {0, 1}
TwoPoolProofs == {generate_zk_proof(Raw(1), Raw(5), Raw(7)), NoProof}

InitializeTwo ==
    \E pool_id \in TwoPools, min_pool_size \in TwoPoolMinSizes :
        initialize_pool(pool_id, min_pool_size, "alice")

DepositTwo ==
    \E pool_id \in TwoPools, commitment \in Commitments :
        deposit(pool_id, commitment, <<>>)

WithdrawTwo ==
    \E pool_id \in TwoPools \cap DOMAIN pools, zk_proof \in TwoPoolProofs :
        withdraw(pool_id, Raw(5), "carol", zk_proof, ZeroPath)

NextTwoPools ==
    \/ InitializeTwo /\ UNCHANGED nonPoolVars
    \/ DepositTwo /\ UNCHANGED nonPoolVars
    \/ WithdrawTwo /\ UNCHANGED nonPoolVars

SpecTwoPools == Init /\ [][NextTwoPools]_vars

\* ------------------------------------------- encryption exchange (crypto.rs) ---
PlainBytes == {0, 65, 255}
SharedSecrets == {1, 2}
Nonces == {1, 2}
FlipMasks == {1, 128}

RECURSIVE SeqsUpTo(_, _)
SeqsUpTo(S, n) ==
    IF n = 0 THEN {<<>>}
    ELSE SeqsUpTo(S, n - 1)
            \cup { Append(q, x) : q \in { r \in SeqsUpTo(S, n - 1) : Len(r) = n - 1 }, x \in S }

Plaintexts == SeqsUpTo(PlainBytes, MaxPlainLen)

\* The sender encrypts p under k and n.
Encrypt ==
    /\ aead.stage = "idle"
    /\ \E p \in Plaintexts, k \in SharedSecrets, n \in Nonces :
          LET out == encrypt_data(p, k, n)
          IN  aead' = [AeadIdle EXCEPT !.stage = "encrypted", !.plaintext = p,
                                       !.shared_secret = k, !.nonce = n,
                                       !.ciphertext = out.ciphertext, !.tag = out.tag]
    /\ UNCHANGED nonAeadVars

\* One byte of the ciphertext in transit is changed.
TamperCiphertext ==
    /\ aead.stage = "encrypted"
    /\ aead.tampered = "no"
    /\ \E pos \in DOMAIN aead.ciphertext, mask \in FlipMasks :
          aead' = [aead EXCEPT !.ciphertext[pos] = BitXor(@, mask),
                               !.tampered = "ciphertext"]
    /\ UNCHANGED nonAeadVars

\* One byte of the tag in transit is changed.
TamperTag ==
    /\ aead.stage = "encrypted"
    /\ aead.tampered = "no"
    /\ \E pos \in {1, TagLen} :
          aead' = [aead EXCEPT !.tag[pos] = <<"flipped", @>>, !.tampered = "tag"]
    /\ UNCHANGED nonAeadVars

\* The receiver decrypts what arrived, under some secret and nonce.
Decrypt ==
    /\ aead.stage = "encrypted"
    /\ \E k \in SharedSecrets, n \in Nonces :
          aead' = [aead EXCEPT !.stage = "decrypted", !.dec_secret = k, !.dec_nonce = n,
                               !.result = decrypt_data(aead.ciphertext, k, n, aead.tag)]
    /\ UNCHANGED nonAeadVars

NextAead == Encrypt \/ TamperCiphertext \/ TamperTag \/ Decrypt

SpecAead == Init /\ [][NextAead]_vars

\* ------------------------------------------ anti-mev/batch_processor.rs ---
BatchSizes == {0, 1, 2, 3}
Instructions == {"ix1", "ix2"}

\* Mutant: the current batch is queued even when it is empty.
seal_batch_unguarded(self) ==
    [self EXCEPT
        !.batch_queue = Append(@, [id |-> self.next_batch_id,
                                   instructions |-> self.current_batch]),
        !.current_batch = <<>>,
        !.next_batch_id = @ + 1]

seal_batch(self) ==
    IF self.current_batch = <<>> THEN self
    ELSE [self EXCEPT
            !.batch_queue = Append(@, [id |-> self.next_batch_id,
                                       instructions |-> self.current_batch]),
            !.current_batch = <<>>,
            !.next_batch_id = @ + 1]

\* Mutant: the batch is sealed one instruction late.
add_to_batch_late(self, instruction) ==
    LET pushed == [self EXCEPT !.current_batch = Append(@, instruction)]
    IN  IF Len(pushed.current_batch) > self.batch_size
        THEN seal_batch(pushed) ELSE pushed

add_to_batch(self, instruction) ==
    LET pushed == [self EXCEPT !.current_batch = Append(@, instruction)]
    IN  IF Len(pushed.current_batch) >= self.batch_size
        THEN seal_batch(pushed) ELSE pushed

force_seal(self) == seal_batch(self)

\* Mutant: the newest batch is taken from the back of the queue.
process_batch_newest(self) ==
    IF self.batch_queue # <<>>
    THEN [self EXCEPT !.batch_queue = SubSeq(@, 1, Len(@) - 1),
                      !.returned = self.batch_queue[Len(self.batch_queue)].instructions]
    ELSE [self EXCEPT !.returned = <<>>]

\* process_batch: pop_front; the popped instructions, or an empty vector, are
\* returned to the caller.
process_batch(self) ==
    IF self.batch_queue # <<>>
    THEN [self EXCEPT !.batch_queue = Tail(@),
                      !.returned = Head(self.batch_queue).instructions]
    ELSE [self EXCEPT !.returned = <<>>]

\* The orders shuffle can leave the sequence q in.
Shuffles(q) ==
    { [i \in DOMAIN q |-> q[f[i]]] :
        f \in { g \in [DOMAIN q -> DOMAIN q] : \A i, j \in DOMAIN q : g[i] = g[j] => i = j } }

AddToBatch ==
    /\ bp.next_batch_id <= MaxBatches
    /\ \E instruction \in Instructions :
          bp' = [add_to_batch(bp, instruction) EXCEPT !.op = "add_to_batch",
                                                      !.returned = <<>>]
    /\ UNCHANGED nonBatchVars

ForceSeal ==
    /\ bp.next_batch_id <= MaxBatches
    /\ bp' = [force_seal(bp) EXCEPT !.op = "force_seal", !.returned = <<>>]
    /\ UNCHANGED nonBatchVars

ProcessBatch ==
    /\ bp' = [process_batch(bp) EXCEPT !.op = "process_batch"]
    /\ UNCHANGED nonBatchVars

ShuffleBatch ==
    /\ \E q \in Shuffles(bp.current_batch) :
          bp' = [bp EXCEPT !.current_batch = q, !.op = "shuffle_batch",
                           !.returned = <<>>]
    /\ UNCHANGED nonBatchVars

InitBatch ==
    /\ StartPools
    /\ StartRest
    /\ StartAead
    /\ \E batch_size \in BatchSizes : bp = BatchProcessor_new(batch_size)
    /\ StartToken
    /\ StartVoting
    /\ StartGov
    /\ StartTreasury
    /\ StartMerkle

NextBatch == AddToBatch \/ ForceSeal \/ ProcessBatch \/ ShuffleBatch

SpecBatch == InitBatch /\ [][NextBatch]_vars

\* ------------------------------------------------- governance/token.rs ---
\* u64 values are kept modulo 2^WordBits.
Modulus == 2 ^ WordBits
MaxWord == Modulus - 1

Holders == {"h1", "h2"}
TokenAmounts == {1, 2, MaxWord}

Put(m, k, v) == [x \in DOMAIN m \cup {k} |-> IF x = k THEN v ELSE m[x]]

\* balances.entry(k).or_insert(0)
OrInsert0(m, k) == IF k \in DOMAIN m THEN m ELSE Put(m, k, 0)

\* balance_of
balance_of(self, address) ==
    IF address \in DOMAIN self.balances THEN self.balances[address] ELSE 0

TokenCall(self, op, from, to, amount, result) ==
    [self EXCEPT !.op = op, !.from = from, !.to = to, !.amount = amount,
                 !.result = result]

mint(self, to, amount) ==
    LET sum == self.circulating_supply + amount
        called == TokenCall(self, "mint", "none", to, amount, "Ok")
    IN  IF sum > MaxWord /\ self.overflow_checks
        THEN [called EXCEPT !.result = "panic"]
        ELSE IF (sum % Modulus) > self.total_supply
        THEN [called EXCEPT !.result = "Would exceed total supply"]
        ELSE LET entry == OrInsert0(self.balances, to)
                 balance == entry[to] + amount
             IN  IF balance > MaxWord /\ self.overflow_checks
                 THEN [called EXCEPT !.balances = entry, !.result = "panic"]
                 ELSE [called EXCEPT
                         !.balances = Put(entry, to, balance % Modulus),
                         !.circulating_supply = sum % Modulus]

transfer(self, from, to, amount) ==
    LET called == TokenCall(self, "transfer", from, to, amount, "Ok")
    IN  IF from \notin DOMAIN self.balances
        THEN [called EXCEPT !.result = "From address has no balance"]
        ELSE IF self.balances[from] < amount
        THEN [called EXCEPT !.result = "Insufficient balance"]
        ELSE LET debited == Put(self.balances, from, self.balances[from] - amount)
                 entry == OrInsert0(debited, to)
                 balance == entry[to] + amount
             IN  IF balance > MaxWord /\ self.overflow_checks
                 THEN [called EXCEPT !.balances = entry, !.result = "panic"]
                 ELSE [called EXCEPT !.balances = Put(entry, to, balance % Modulus)]

burn(self, from, amount) ==
    LET called == TokenCall(self, "burn", from, "none", amount, "Ok")
    IN  IF from \notin DOMAIN self.balances
        THEN [called EXCEPT !.result = "Address has no balance"]
        ELSE IF self.balances[from] < amount
        THEN [called EXCEPT !.result = "Insufficient balance to burn"]
        ELSE LET debited == Put(self.balances, from, self.balances[from] - amount)
                 supply == self.circulating_supply - amount
             IN  IF supply < 0 /\ self.overflow_checks
                 THEN [called EXCEPT !.balances = debited, !.result = "panic"]
                 ELSE [called EXCEPT !.balances = debited,
                                     !.circulating_supply = supply % Modulus]

Mint ==
    /\ \E to \in Holders, amount \in TokenAmounts : token' = mint(token, to, amount)
    /\ UNCHANGED nonTokenVars

Transfer ==
    /\ \E from \in Holders, to \in Holders, amount \in TokenAmounts :
          token' = transfer(token, from, to, amount)
    /\ UNCHANGED nonTokenVars

Burn ==
    /\ \E from \in Holders, amount \in TokenAmounts : token' = burn(token, from, amount)
    /\ UNCHANGED nonTokenVars

InitToken ==
    /\ StartPools
    /\ StartRest
    /\ StartAead
    /\ StartBatch
    /\ \E t \in TotalSupplies, oc \in BOOLEAN : token = GovernanceToken_new(t, oc)
    /\ StartVoting
    /\ StartGov
    /\ StartTreasury
    /\ StartMerkle

NextToken == Mint \/ Transfer \/ Burn

SpecToken == InitToken /\ [][NextToken]_vars

\* ------------------------------------------------ governance/voting.rs ---
VotingPowers == {1, 2}

Remove(m, k) == [x \in DOMAIN m \ {k} |-> m[x]]

delegate(self, delegator, delegatee, voting_power) ==
    LET inserted == [self EXCEPT !.delegations = Put(@, delegator, delegatee),
                                 !.op = "delegate", !.result = "Ok"]
        entry == OrInsert0(self.voting_power, delegatee)
        delegatee_power == entry[delegatee] + voting_power
    IN  IF delegatee_power > MaxWord /\ self.overflow_checks
        THEN [inserted EXCEPT !.voting_power = entry, !.result = "panic"]
        ELSE [inserted EXCEPT
                !.voting_power = Put(entry, delegatee, delegatee_power % Modulus)]

undelegate(self, delegator) ==
    IF delegator \in DOMAIN self.delegations
    THEN [self EXCEPT !.delegations = Remove(@, delegator),
                      !.op = "undelegate", !.result = "Ok"]
    ELSE [self EXCEPT !.op = "undelegate", !.result = "No delegation found"]

get_voting_power(self, address) ==
    IF address \in DOMAIN self.voting_power THEN self.voting_power[address] ELSE 0

\* The delegation made by the call stands with the amount it was made with.
Delegate ==
    /\ \E delegator \in Holders, delegatee \in Holders, voting_power \in VotingPowers :
          LET after == delegate(voting, delegator, delegatee, voting_power)
          IN  voting' = [after EXCEPT !.delegated = Put(@, delegator, voting_power)]
    /\ UNCHANGED nonVotingVars

Undelegate ==
    /\ \E delegator \in Holders :
          LET after == undelegate(voting, delegator)
          IN  voting' = [after EXCEPT !.delegated =
                            IF after.result = "Ok" THEN Remove(@, delegator) ELSE @]
    /\ UNCHANGED nonVotingVars

InitVoting ==
    /\ StartPools
    /\ StartRest
    /\ StartAead
    /\ StartBatch
    /\ StartToken
    /\ \E q \in QuorumThresholds, oc \in BOOLEAN : voting = VotingSystem_new(q, oc)
    /\ StartGov
    /\ StartTreasury
    /\ StartMerkle

NextVoting == Delegate \/ Undelegate

SpecVoting == InitVoting /\ [][NextVoting]_vars

EmptyProposalVotes == [yes_voters |-> {}, no_voters |-> {}, yes_count |-> 0, no_count |-> 0]

cast_vote(self, proposal_id, voter, voting_power, vote_yes) ==
    LET entry == IF proposal_id \in DOMAIN self.votes THEN self.votes
                 ELSE Put(self.votes, proposal_id, EmptyProposalVotes)
        votes == entry[proposal_id]
        called == [self EXCEPT !.votes = entry, !.op = "cast_vote", !.result = "Ok"]
        effective_voter == IF voter \in DOMAIN self.delegations
                           THEN self.delegations[voter] ELSE voter
        count == (IF vote_yes THEN votes.yes_count ELSE votes.no_count) + voting_power
        inserted == IF vote_yes
                    THEN [votes EXCEPT !.yes_voters = @ \cup {effective_voter}]
                    ELSE [votes EXCEPT !.no_voters = @ \cup {effective_voter}]
        counted == IF vote_yes
                   THEN [inserted EXCEPT !.yes_count = count % Modulus]
                   ELSE [inserted EXCEPT !.no_count = count % Modulus]
    IN  IF voter \in votes.yes_voters \/ voter \in votes.no_voters
        THEN [called EXCEPT !.result = "Already voted"]
        ELSE IF count > MaxWord /\ self.overflow_checks
        THEN [called EXCEPT !.votes = Put(entry, proposal_id, inserted),
                            !.result = "panic"]
        ELSE [called EXCEPT !.votes = Put(entry, proposal_id, counted)]

\* has_passed: whether it panics, and the boolean it returns otherwise.
has_passed(self, proposal_id, yes_votes, no_votes) ==
    LET total_votes == yes_votes + no_votes
    IN  IF total_votes > MaxWord /\ self.overflow_checks
        THEN [panic |-> TRUE, value |-> FALSE]
        ELSE IF (total_votes % Modulus) < self.quorum_threshold
        THEN [panic |-> FALSE, value |-> FALSE]
        ELSE [panic |-> FALSE, value |-> yes_votes > no_votes]

\* ---------------------------------------------------- governance/lib.rs ---
\* Token amounts of the governance system are counted in units of 1_000_000.
MinTokens == 1
ProposalIds == {1}
GovMintAmounts == {2}
GovDelegatees == {"h2"}
EndTimes == {1}
Clock == {0, 1}

\* The nested objects as a GovernanceSystem holds them: their state without
\* the note of the last method called on them.
TokenState(t) == TokenCall(t, "new", "none", "none", 0, "Ok")
VotingState(v) == [v EXCEPT !.op = "new", !.result = "Ok"]

GovCall(g, op, result) == [g EXCEPT !.op = op, !.result = result]

create_proposal(g, proposer, start_time, end_time) ==
    IF balance_of(g.token, proposer) < MinTokens
    THEN GovCall(g, "create_proposal", "Insufficient tokens to create proposal")
    ELSE [GovCall(g, "create_proposal", "Ok") EXCEPT
            !.proposals = Put(@, g.next_proposal_id,
                              [id |-> g.next_proposal_id, proposer |-> proposer,
                               end_time |-> end_time, yes_votes |-> 0,
                               no_votes |-> 0, status |-> "Active"]),
            !.next_proposal_id = @ + 1]

vote(g, proposal_id, voter, vote_yes) ==
    LET called == GovCall(g, "vote", "Ok")
        proposal == g.proposals[proposal_id]
        voting_power == balance_of(g.token, voter)
        cast == cast_vote(g.voting, proposal_id, voter, voting_power, vote_yes)
        tally == (IF vote_yes THEN proposal.yes_votes ELSE proposal.no_votes)
                    + voting_power
    IN  IF proposal_id \notin DOMAIN g.proposals
        THEN [called EXCEPT !.result = "Proposal not found"]
        ELSE IF proposal.status # "Active"
        THEN [called EXCEPT !.result = "Proposal is not active"]
        ELSE IF voting_power = 0
        THEN [called EXCEPT !.result = "No voting power"]
        ELSE IF cast.result # "Ok"
        THEN [called EXCEPT !.voting = VotingState(cast), !.result = cast.result]
        ELSE IF tally > MaxWord /\ g.token.overflow_checks
        THEN [called EXCEPT !.voting = VotingState(cast), !.result = "panic"]
        ELSE [called EXCEPT
                !.voting = VotingState(cast),
                !.proposals[proposal_id] =
                    IF vote_yes THEN [@ EXCEPT !.yes_votes = tally % Modulus]
                    ELSE [@ EXCEPT !.no_votes = tally % Modulus]]

execute_proposal(g, proposal_id, current_time) ==
    LET called == GovCall(g, "execute_proposal", "Ok")
        proposal == g.proposals[proposal_id]
        passed == has_passed(g.voting, proposal_id, proposal.yes_votes, proposal.no_votes)
    IN  IF proposal_id \notin DOMAIN g.proposals
        THEN [called EXCEPT !.result = "Proposal not found"]
        ELSE IF current_time < proposal.end_time
        THEN [called EXCEPT !.result = "Voting period not ended"]
        ELSE IF passed.panic
        THEN [called EXCEPT !.result = "panic"]
        ELSE IF ~passed.value
        THEN [called EXCEPT !.proposals[proposal_id].status = "Failed",
                            !.result = "Proposal did not pass"]
        ELSE [called EXCEPT !.proposals[proposal_id].status = "Executed"]

delegate_votes(g, delegator, delegatee) ==
    LET voting_power == balance_of(g.token, delegator)
        after == delegate(g.voting, delegator, delegatee, voting_power)
    IN  [GovCall(g, "delegate_votes", after.result) EXCEPT
            !.voting = VotingState([after EXCEPT
                            !.delegated = Put(@, delegator, voting_power)])]

\* gov.token.mint, as the tests of lib.rs fund their voters.
GovMint ==
    /\ \E to \in Holders, amount \in GovMintAmounts :
          LET after == mint(gov.token, to, amount)
          IN  gov' = [GovCall(gov, "mint", after.result) EXCEPT
                        !.token = TokenState(after)]
    /\ UNCHANGED nonGovVars

CreateProposal ==
    /\ gov.next_proposal_id \in ProposalIds
    /\ \E proposer \in Holders, end_time \in EndTimes :
          gov' = create_proposal(gov, proposer, 0, end_time)
    /\ UNCHANGED nonGovVars

NoBallots == [yes |-> [a \in {} |-> 0], no |-> [a \in {} |-> 0]]

\* The ballots of proposal_id with the vote of voter noted, if it is the
\* first one of voter on that side.
NoteBallot(ballots, proposal_id, voter, vote_yes, power) ==
    LET entry == IF proposal_id \in DOMAIN ballots THEN ballots
                 ELSE Put(ballots, proposal_id, NoBallots)
        side == IF vote_yes THEN entry[proposal_id].yes ELSE entry[proposal_id].no
        noted == IF voter \in DOMAIN side THEN side ELSE Put(side, voter, power)
    IN  Put(entry, proposal_id,
            IF vote_yes THEN [entry[proposal_id] EXCEPT !.yes = noted]
            ELSE [entry[proposal_id] EXCEPT !.no = noted])

\* A successful vote is noted with the power it was cast with.
Vote ==
    /\ \E proposal_id \in ProposalIds, voter \in Holders, vote_yes \in BOOLEAN :
          LET after == vote(gov, proposal_id, voter, vote_yes)
          IN  gov' = IF after.result = "Ok"
                     THEN [after EXCEPT !.ballots =
                             NoteBallot(@, proposal_id, voter, vote_yes,
                                        balance_of(gov.token, voter))]
                     ELSE after
    /\ UNCHANGED nonGovVars

ExecuteProposal ==
    /\ \E proposal_id \in ProposalIds, current_time \in Clock :
          gov' = execute_proposal(gov, proposal_id, current_time)
    /\ UNCHANGED nonGovVars

\* Every holder delegates at most once in a run.
DelegateVotes ==
    /\ \E delegator \in Holders \ DOMAIN gov.voting.delegations,
          delegatee \in GovDelegatees :
          gov' = delegate_votes(gov, delegator, delegatee)
    /\ UNCHANGED nonGovVars

InitGov ==
    /\ StartPools
    /\ StartRest
    /\ StartAead
    /\ StartBatch
    /\ StartToken
    /\ StartVoting
    /\ \E t \in TotalSupplies, q \in QuorumThresholds, oc \in BOOLEAN :
          gov = GovernanceSystem_new(t, q, oc)
    /\ StartTreasury
    /\ StartMerkle

NextGov == GovMint \/ CreateProposal \/ Vote \/ ExecuteProposal \/ DelegateVotes

SpecGov == InitGov /\ [][NextGov]_vars

\* ---------------------------------------------- governance/treasury.rs ---
TreasuryAmounts == {1, 2, MaxWord}
CollectedFees == {2}
FeeTypes == {"Transaction"}

TreasuryCall(self, op, arg, result) ==
    [self EXCEPT !.op = op, !.arg = arg, !.result = result, !.returned = 0]

Treasury_deposit(self, amount) ==
    LET called == TreasuryCall(self, "deposit", amount, "Ok")
        balance == self.balance + amount
    IN  IF balance > MaxWord /\ self.overflow_checks
        THEN [called EXCEPT !.result = "panic"]
        ELSE [called EXCEPT !.balance = balance % Modulus]

collect_fee(self, amount, fee_type) ==
    LET called == TreasuryCall(self, "collect_fee", amount, "Ok")
        balance == self.balance + amount
        total_fees == self.revenue.total_fees + amount
        field == CASE fee_type = "Transaction" -> "transaction_fees"
                   [] fee_type = "Bridge" -> "bridge_fees"
                   [] fee_type = "Pool" -> "pool_fees"
        typed == self.revenue[field] + amount
    IN  IF balance > MaxWord /\ self.overflow_checks
        THEN [called EXCEPT !.result = "panic"]
        ELSE IF total_fees > MaxWord /\ self.overflow_checks
        THEN [called EXCEPT !.balance = balance % Modulus, !.result = "panic"]
        ELSE IF typed > MaxWord /\ self.overflow_checks
        THEN [called EXCEPT !.balance = balance % Modulus,
                            !.revenue.total_fees = total_fees % Modulus,
                            !.result = "panic"]
        ELSE [called EXCEPT !.balance = balance % Modulus,
                            !.revenue.total_fees = total_fees % Modulus,
                            !.revenue[field] = typed % Modulus]

create_allocation(self, recipient, amount, purpose) ==
    LET called == TreasuryCall(self, "create_allocation", amount, "Ok")
    IN  IF amount > self.balance
        THEN [called EXCEPT !.result = "Insufficient treasury balance"]
        ELSE [called EXCEPT
                !.allocations = Put(@, self.next_allocation_id,
                                    [id |-> self.next_allocation_id, amount |-> amount,
                                     executed |-> FALSE]),
                !.next_allocation_id = @ + 1,
                !.returned = self.next_allocation_id]

\* Mutant: the executed flag is not looked at.
execute_allocation_again(self, allocation_id) ==
    LET called == TreasuryCall(self, "execute_allocation", allocation_id, "Ok")
        allocation == self.allocations[allocation_id]
    IN  IF allocation_id \notin DOMAIN self.allocations
        THEN [called EXCEPT !.result = "Allocation not found"]
        ELSE IF allocation.amount > self.balance
        THEN [called EXCEPT !.result = "Insufficient balance"]
        ELSE [called EXCEPT !.balance = self.balance - allocation.amount,
                            !.allocations[allocation_id].executed = TRUE]

execute_allocation(self, allocation_id) ==
    LET called == TreasuryCall(self, "execute_allocation", allocation_id, "Ok")
        allocation == self.allocations[allocation_id]
    IN  IF allocation_id \notin DOMAIN self.allocations
        THEN [called EXCEPT !.result = "Allocation not found"]
        ELSE IF allocation.executed
        THEN [called EXCEPT !.result = "Allocation already executed"]
        ELSE IF allocation.amount > self.balance
        THEN [called EXCEPT !.result = "Insufficient balance"]
        ELSE [called EXCEPT !.balance = self.balance - allocation.amount,
                            !.allocations[allocation_id].executed = TRUE]

TreasuryDeposit ==
    /\ \E amount \in TreasuryAmounts : treasury' = Treasury_deposit(treasury, amount)
    /\ UNCHANGED nonTreasuryVars

CollectFee ==
    /\ \E amount \in CollectedFees, fee_type \in FeeTypes :
          treasury' = collect_fee(treasury, amount, fee_type)
    /\ UNCHANGED nonTreasuryVars

CreateAllocation ==
    /\ treasury.next_allocation_id <= MaxAllocations
    /\ \E amount \in TreasuryAmounts :
          treasury' = create_allocation(treasury, "carol", amount, "grant")
    /\ UNCHANGED nonTreasuryVars

ExecuteAllocation ==
    /\ \E allocation_id \in 1 .. MaxAllocations :
          treasury' = execute_allocation(treasury, allocation_id)
    /\ UNCHANGED nonTreasuryVars

InitTreasury ==
    /\ StartPools
    /\ StartRest
    /\ StartAead
    /\ StartBatch
    /\ StartToken
    /\ StartVoting
    /\ StartGov
    /\ \E oc \in BOOLEAN : treasury = Treasury_new(oc)
    /\ StartMerkle

NextTreasury == TreasuryDeposit \/ CollectFee \/ CreateAllocation \/ ExecuteAllocation

SpecTreasury == InitTreasury /\ [][NextTreasury]_vars

\* Fees: u64 values are kept modulo 2^FeeWordBits, a word in which the
\* basis-point arithmetic of the code fits.
FeeModulus == 2 ^ FeeWordBits
FeeMaxWord == FeeModulus - 1
BasisPoints == 10000
MaxFeeBp == 1000

FeeAmounts ==
    {0, 1, 333, 334, 10000, 20000, FeeMaxWord \div MaxFeeBp, (FeeMaxWord \div 30) + 1, FeeMaxWord}

FeeConfigs ==
    { FeeConfig_default,
      [transaction_fee_bp |-> 1, bridge_fee_bp |-> MaxFeeBp, pool_fee_bp |-> 0],
      [transaction_fee_bp |-> MaxFeeBp + 1, bridge_fee_bp |-> 50, pool_fee_bp |-> 20] }

\* (amount * fee_bp) / 10_000 in the machine word: whether the product
\* panics, and the quotient otherwise.
fee_of(self, amount, fee_bp) ==
    LET product == amount * fee_bp
    IN  IF product > FeeMaxWord /\ self.overflow_checks
        THEN [panic |-> TRUE, value |-> 0]
        ELSE [panic |-> FALSE, value |-> (product % FeeModulus) \div BasisPoints]

calculate_transaction_fee(self, amount) ==
    fee_of(self, amount, self.fee_config.transaction_fee_bp)

calculate_bridge_fee(self, amount) ==
    fee_of(self, amount, self.fee_config.bridge_fee_bp)

calculate_pool_fee(self, amount) ==
    fee_of(self, amount, self.fee_config.pool_fee_bp)

update_fees(self, new_config) ==
    LET called == TreasuryCall(self, "update_fees", 0, "Ok")
    IN  IF \/ new_config.transaction_fee_bp > MaxFeeBp
           \/ new_config.bridge_fee_bp > MaxFeeBp
           \/ new_config.pool_fee_bp > MaxFeeBp
        THEN [called EXCEPT !.result = "Fees cannot exceed 10%"]
        ELSE [called EXCEPT !.fee_config = new_config]

FeeReturned(self, op, amount, fee) ==
    [TreasuryCall(self, op, amount, IF fee.panic THEN "panic" ELSE "Ok")
        EXCEPT !.returned = fee.value]

CalculateTransactionFee ==
    /\ \E amount \in FeeAmounts :
          treasury' = FeeReturned(treasury, "calculate_transaction_fee", amount,
                                  calculate_transaction_fee(treasury, amount))
    /\ UNCHANGED nonTreasuryVars

CalculateBridgeFee ==
    /\ \E amount \in FeeAmounts :
          treasury' = FeeReturned(treasury, "calculate_bridge_fee", amount,
                                  calculate_bridge_fee(treasury, amount))
    /\ UNCHANGED nonTreasuryVars

CalculatePoolFee ==
    /\ \E amount \in FeeAmounts :
          treasury' = FeeReturned(treasury, "calculate_pool_fee", amount,
                                  calculate_pool_fee(treasury, amount))
    /\ UNCHANGED nonTreasuryVars

UpdateFees ==
    /\ \E new_config \in FeeConfigs : treasury' = update_fees(treasury, new_config)
    /\ UNCHANGED nonTreasuryVars

NextFees ==
    CalculateTransactionFee \/ CalculateBridgeFee \/ CalculatePoolFee \/ UpdateFees

SpecFees == InitTreasury /\ [][NextFees]_vars

\* ----------------------------------- crypto.rs: verify_merkle_proof alone ---
MerkleLeaves == {Raw(1), Zero32}
MerkleSiblings == {Raw(2), Zero32}

\* Paths shorter than, as long as and longer than the depth of the design.
MerklePaths == SeqsUpTo(MerkleSiblings, Depth + 1)
MerkleIndexes == 0 .. (Pow2(Depth + 1) - 1)

\* Roots a caller may hold for (leaf, proof, index): the one that path leads
\* to, the one it leads to from the neighbouring index, the leaf, and zero.
MerkleRootsFor(leaf, proof, index) ==
    { merkle_fold(leaf, proof, index), merkle_fold(leaf, proof, index + 1), leaf, Zero32 }

VerifyMerkleProof ==
    /\ ~mk.called
    /\ mk' = [mk EXCEPT !.called = TRUE,
                         !.result = verify_merkle_proof(mk.leaf, mk.proof, mk.root, mk.index)]
    /\ UNCHANGED nonMerkleVars

InitMerkle ==
    /\ StartPools
    /\ StartRest
    /\ StartAead
    /\ StartBatch
    /\ StartToken
    /\ StartVoting
    /\ StartGov
    /\ StartTreasury
    /\ \E leaf \in MerkleLeaves, proof \in MerklePaths, index \in MerkleIndexes :
          \E root \in MerkleRootsFor(leaf, proof, index) :
              mk = MerkleCall(leaf, proof, root, index)

NextMerkle == VerifyMerkleProof

SpecMerkle == InitMerkle /\ [][NextMerkle]_vars

\* ------------------------------------------- verify_zk_proof (crypto.rs) ---
\* Byte strings handed to verify_zk_proof: empty, one byte, a digest cut by a
\* byte, a digest, and a digest with a byte appended.
ZkProofLens == {0, 1, 31, 32, 33}

ZkProofInputs ==
    { [len |-> k, bytes |-> generate_zk_proof(Raw(1), Raw(5), Raw(7)).bytes] :
        k \in ZkProofLens }

\* verify_zk_proof is called with the program in whatever state it is in.
VerifyZkProof ==
    /\ \E proof \in ZkProofInputs, commitment \in {Raw(1)}, nullifier \in Nullifiers :
          zkv' = ZkCall(proof, commitment, nullifier,
                        verify_zk_proof(proof, commitment, nullifier))
    /\ UNCHANGED nonZkVars

\* Withdrawals with the same byte strings and no Merkle path.
WithdrawZk ==
    /\ \E pool_id \in OnePool \cap DOMAIN pools, nullifier \in Nullifiers,
          recipient \in Recipients, zk_proof \in ZkProofInputs :
            withdraw(pool_id, nullifier, recipient, zk_proof, <<>>)
    /\ UNCHANGED nonPoolVars

NextZk ==
    \/ InitializePool(OnePool) /\ UNCHANGED nonPoolVars
    \/ Deposit(OnePool) /\ UNCHANGED nonPoolVars
    \/ WithdrawZk
    \/ VerifyZkProof

SpecZk == Init /\ [][NextZk]_vars


\* ------------------------------------------------- wallet-sdk (lib.rs) ---
WalletAmounts == {1, 2, 3}
\* Values of rand::thread_rng() for the 32 bytes of randomness.
WalletRandomness == { Raw(11), Raw(12) }

generate_commitment(recipient, amount, randomness) ==
    Sha3_256(<<recipient, amount, randomness>>)

\* SecureStorage::store_commitment prints a line and returns Ok(()).
store_commitment(self, commitment, randomness) == self

\* SecureStorage::get_secret: Ok(commitment.to_vec()).
get_secret(self, commitment) == commitment

\* deposit_to_pool: the client draws the randomness, builds the commitment and
\* sends it; the wallet stores the pair and returns it to the caller.
WalletDeposit ==
    /\ \E recipient \in Recipients, amount \in WalletAmounts,
          randomness \in WalletRandomness :
          LET commitment == generate_commitment(recipient, amount, randomness)
          IN  wallet' = [wallet EXCEPT
                            !.storage = store_commitment(@, commitment, randomness),
                            !.deposited = Put(@, commitment, randomness),
                            !.op = "deposit_to_pool",
                            !.commitment = commitment,
                            !.nullifier = Zero32]
    /\ UNCHANGED nonWalletVars

\* withdraw_from_pool for a commitment of an earlier deposit: the secret is
\* read from storage and the client sends generate_nullifier(secret, commitment).
WalletWithdraw ==
    /\ \E commitment \in DOMAIN wallet.deposited :
          LET secret == get_secret(wallet.storage, commitment)
          IN  wallet' = [wallet EXCEPT
                            !.op = "withdraw_from_pool",
                            !.commitment = commitment,
                            !.nullifier = generate_nullifier(secret, commitment)]
    /\ UNCHANGED nonWalletVars

NextWallet == WalletDeposit \/ WalletWithdraw

SpecWallet == Init /\ [][NextWallet]_vars


\* ------------------------------------------- anti-mev (lib.rs, time_lock.rs) ---
\* let current_slot = 1000u64
CurrentSlot == 1000

MinTimeLocks == {0, 2}
ServiceBatchSizes == {0, 2}
Slots == {0, 999, 1000, 1001, 1002, 1003}
Priorities == {"Basic", "Enhanced", "Maximum"}
\* Values of rand::thread_rng() for the order key.
OrderKeys == {1}

calculate_unlock_slot(self) == CurrentSlot + self.min_lock_duration

\* TimeLockManager::is_unlocked: the body is `true`.
is_unlocked(self, slot) == TRUE

current_batch_id(self) == self.next_batch_id

\* PrivateOrderFlow::encrypt_order: the serialized instruction is XORed with a
\* fresh key and the order is kept under the id pending_orders.len().
encrypt_order(self, instruction, key) ==
    LET encrypted == <<"xor", instruction, key>>
    IN  [self EXCEPT !.pending_orders =
            Append(@, [order_id |-> Len(self.pending_orders),
                       encrypted_data |-> encrypted,
                       commitment |-> Sha3_256(<<encrypted, Lit("ORDER_COMMITMENT")>>),
                       reveal_slot |-> 1000 + 10])]

protect_transaction(self, instruction, priority, key) ==
    IF priority = "Basic"
    THEN ServiceCall(self, "protect_transaction", priority, instruction, 0,
                     calculate_unlock_slot(self.time_lock), 0, FALSE)
    ELSE IF priority = "Enhanced"
    THEN LET added == [add_to_batch(self.batch_processor, instruction)
                          EXCEPT !.returned = <<>>]
         IN  ServiceCall([self EXCEPT !.batch_processor = added],
                         "protect_transaction", priority, instruction,
                         current_batch_id(added), 0, 0, FALSE)
    ELSE ServiceCall([self EXCEPT !.order_flow = encrypt_order(@, instruction, key)],
                     "protect_transaction", priority, instruction, 0,
                     calculate_unlock_slot(self.time_lock), 0, FALSE)

is_safe_to_execute(self, slot) == is_unlocked(self.time_lock, slot)

ProtectTransaction ==
    /\ \E instruction \in Instructions, priority \in Priorities, key \in OrderKeys :
          /\ (priority = "Enhanced") => svc.batch_processor.next_batch_id <= MaxBatches
          /\ (priority = "Maximum")
                => Len(svc.order_flow.pending_orders) < MaxPendingOrders
          /\ svc' = protect_transaction(svc, instruction, priority, key)
    /\ UNCHANGED nonServiceVars

\* AntiMevService::process_batch
ServiceProcessBatch ==
    /\ svc' = ServiceCall([svc EXCEPT !.batch_processor = process_batch(@)],
                          "process_batch", "none", "none", 0, 0, 0, FALSE)
    /\ UNCHANGED nonServiceVars

IsSafeToExecute ==
    /\ \E slot \in Slots :
          svc' = ServiceCall(svc, "is_safe_to_execute", svc.priority, svc.instruction,
                             svc.batch_id, svc.unlock_slot, slot,
                             is_safe_to_execute(svc, slot))
    /\ UNCHANGED nonServiceVars

InitService ==
    /\ StartPools
    /\ StartZk
    /\ StartWallet
    /\ StartDetector
    /\ \E min_time_lock \in MinTimeLocks, batch_size \in ServiceBatchSizes :
          svc = AntiMevService_new(min_time_lock, batch_size)
    /\ StartAead
    /\ StartBatch
    /\ StartToken
    /\ StartVoting
    /\ StartGov
    /\ StartTreasury
    /\ StartMerkle

NextService == ProtectTransaction \/ ServiceProcessBatch \/ IsSafeToExecute

SpecService == InitService /\ [][NextService]_vars


\* ------------------------------------------------ MevDetector (lib.rs) ---
MaxHistories == {0, 1, 2}
Events ==
    { [account |-> "acct", amount |-> 1000, timestamp |-> t, tx_type |-> "Swap"] :
        t \in {100, 102, 104} }

\* pop_front on an empty VecDeque returns None and removes nothing.
record_event(self, event) ==
    LET popped == IF Len(self.history) >= self.max_history /\ self.history # <<>>
                  THEN Tail(self.history)
                  ELSE self.history
    IN  [self EXCEPT !.history = Append(popped, event)]

RecordEvent ==
    /\ Len(det.recorded) < MaxEvents
    /\ \E event \in Events :
          det' = [record_event(det, event) EXCEPT !.recorded = Append(@, event)]
    /\ UNCHANGED nonDetectorVars

InitDetector ==
    /\ StartPools
    /\ StartZk
    /\ StartWallet
    /\ StartService
    /\ \E max_history \in MaxHistories : det = MevDetector_new(max_history)
    /\ StartAead
    /\ StartBatch
    /\ StartToken
    /\ StartVoting
    /\ StartGov
    /\ StartTreasury
    /\ StartMerkle

NextDetector == RecordEvent

SpecDetector == InitDetector /\ [][NextDetector]_vars


\* ================================================================ claims ===
Range(seq) == { seq[i] : i \in DOMAIN seq }

PoolOf(call) == pools[call.pool_id]

\* C1: at most one withdraw carrying a given nullifier succeeds.  Every
\* nullifier account is written by exactly one successful withdraw, so no two
\* nullifier accounts may carry the same nullifier.
C1_OneWithdrawPerNullifier ==
    \A i, j \in DOMAIN nullifierAccounts :
        (i # j) => (nullifierAccounts[i].nullifier # nullifierAccounts[j].nullifier)

\* C2: in every reachable state the root of every pool is the Merkle root of
\* the depth-D tree over its commitments in insertion order.
C2_RootIsMerkleRoot ==
    \A p \in DOMAIN pools : pools[p].commitment_root = MerkleRoot(leaves(p))

\* C3: a withdraw against a pool with commitment_count < min_pool_size fails
\* with InsufficientPoolSize whatever its nullifier, proof and Merkle proof
\* are, and writes no nullifier account.
C3_AnonymityThreshold ==
    [][ (/\ last'.op = "withdraw"
         /\ PoolOf(last').commitment_count < PoolOf(last').min_pool_size)
        => (/\ last'.result = "InsufficientPoolSize"
            /\ nullifierAccounts' = nullifierAccounts) ]_vars

\* C3 witness: a withdraw carrying a well-formed 32-byte proof was turned down
\* by the pool-size gate of a pool that holds a commitment.
C3_Witness ==
    /\ last.op = "withdraw"
    /\ last.result = "InsufficientPoolSize"
    /\ last.zk_proof.len = 32
    /\ PoolOf(last).commitment_count = 1
    /\ PoolOf(last).min_pool_size = 2

\* C4: a withdraw that repeats the nullifier of an earlier successful withdraw
\* (and passes the pool-size and proof checks) returns NullifierUsed and leaves
\* the nullifier accounts as they were.
C4_RepeatedNullifierRejected ==
    [][ (/\ last'.op = "withdraw"
         /\ last'.nullifier \in Spent
         /\ PoolOf(last').commitment_count >= PoolOf(last').min_pool_size
         /\ verify_zk_proof(last'.zk_proof, Zero32, last'.nullifier))
        => (/\ last'.result = "NullifierUsed"
            /\ nullifierAccounts' = nullifierAccounts) ]_vars

\* C5: a deposit of a commitment that is already a leaf of the pool fails with
\* CommitmentExists and leaves the pool and its leaves unchanged.
C5_DuplicateCommitmentRejected ==
    [][ (/\ last'.op = "deposit"
         /\ last'.commitment \in Range(leaves(last'.pool_id)))
        => (/\ last'.result = "CommitmentExists"
            /\ pools' = pools
            /\ commitmentAccounts' = commitmentAccounts) ]_vars


\* The Merkle proof recomputes the pool's root from some leaf value at some
\* index of the depth-D tree: the most generous reading of "the proof verifies".
MerkleProofVerifies(p, merkle_proof) ==
    \E leaf \in Commitments \cup {Zero32}, i \in 0 .. (Pow2(Depth) - 1) :
        verify_merkle_proof(leaf, merkle_proof, pools[p].commitment_root, i)

\* C6: a withdraw succeeds only if its Merkle proof verifies against the
\* pool's root (withdraw leaves the pool unchanged, so the root read here is
\* the root the call saw).
C6_WithdrawNeedsMerkleProof ==
    (last.op = "withdraw" /\ last.result = "Ok")
        => MerkleProofVerifies(last.pool_id, last.merkle_proof)

\* C7: a withdraw never succeeds with a proof generated for another nullifier
\* than the one it carries.
C7_ProofBoundToNullifier ==
    (last.op = "withdraw" /\ last.result = "Ok")
        => \E c \in Commitments, s \in Secrets :
               last.zk_proof = generate_zk_proof(c, last.nullifier, s)

\* C8: an instruction that returns an error leaves every pool account, every
\* commitment account and every nullifier account as it was.
C8_FailureChangesNothing ==
    [][ (last'.result # "Ok")
        => (/\ pools' = pools
            /\ commitmentAccounts' = commitmentAccounts
            /\ nullifierAccounts' = nullifierAccounts) ]_vars

\* C8 witness: a withdraw failed on its proof in a state that already holds a
\* commitment and a spent nullifier.
C8_Witness ==
    /\ last.op = "withdraw"
    /\ last.result = "InvalidZKProof"
    /\ Len(nullifierAccounts) >= 1
    /\ Len(commitmentAccounts) >= 1

\* The result the documented order of checks gives: pool size, Merkle proof,
\* ZK proof, nullifier.
OrderedWithdrawResult(pool, merkle_ok, zk_ok, spent) ==
    IF pool.commitment_count < pool.min_pool_size THEN "InsufficientPoolSize"
    ELSE IF ~merkle_ok THEN "InvalidMerkleProof"
    ELSE IF ~zk_ok THEN "InvalidZKProof"
    ELSE IF spent THEN "NullifierUsed"
    ELSE "Ok"

\* C9: withdraw reports the error of the first failing check in the order
\* pool size, Merkle proof, ZK proof, nullifier.
C9_WithdrawCheckOrder ==
    [][ (last'.op = "withdraw")
        => last'.result =
             OrderedWithdrawResult(PoolOf(last'),
                                   MerkleProofVerifies(last'.pool_id, last'.merkle_proof),
                                   verify_zk_proof(last'.zk_proof, Zero32, last'.nullifier),
                                   last'.nullifier \in Spent) ]_vars

\* C2, after a deposit: the same statement for the pools that hold a commitment.
C2_RootIsMerkleRootAfterDeposit ==
    \A p \in DOMAIN pools :
        (pools[p].commitment_count > 0) => (pools[p].commitment_root = MerkleRoot(leaves(p)))

\* verify_merkle_proof accepts every sibling path against the recomputed
\* Merkle root of the leaves (the accumulator of the design is sound).
PathVerifiesOnMerkleRoot ==
    \A p \in DOMAIN pools :
        \A i \in 0 .. (Len(leaves(p)) - 1) :
            verify_merkle_proof(leaves(p)[i + 1], path_for(leaves(p), i),
                                MerkleRoot(leaves(p)), i)

\* C10: for every leaf index i of a pool, verify_merkle_proof accepts the
\* sibling path of leaf i against the pool's root.
C10_MerkleSoundness ==
    \A p \in DOMAIN pools :
        \A i \in 0 .. (Len(leaves(p)) - 1) :
            verify_merkle_proof(leaves(p)[i + 1], path_for(leaves(p), i),
                                pools[p].commitment_root, i)

\* Decryption used the secret and the nonce of the encryption.
SameKeyAndNonce ==
    /\ aead.stage = "decrypted"
    /\ aead.dec_secret = aead.shared_secret
    /\ aead.dec_nonce = aead.nonce

\* C11: decrypt_data applied to the ciphertext and tag of encrypt_data(p, k, n),
\* with the same k and n, returns Ok(p).
C11_RoundTrip ==
    (SameKeyAndNonce /\ aead.tampered = "no")
        => (aead.result.ok /\ aead.result.plaintext = aead.plaintext)

\* C11 witness: a plaintext of two different bytes came back from decrypt_data.
C11_Witness ==
    /\ SameKeyAndNonce
    /\ aead.tampered = "no"
    /\ Len(aead.plaintext) = 2
    /\ aead.plaintext[1] # aead.plaintext[2]
    /\ aead.ciphertext # aead.plaintext
    /\ aead.result.ok

\* C12: after a change of one position of the ciphertext or of the tag,
\* decrypt_data with the same key and nonce returns the authentication error
\* and no plaintext.
C12_TamperDetected ==
    (SameKeyAndNonce /\ aead.tampered # "no")
        => (aead.result = AuthFailed)

\* C12 witness: a changed ciphertext byte was turned down.
C12_Witness ==
    /\ SameKeyAndNonce
    /\ aead.tampered = "ciphertext"
    /\ Len(aead.ciphertext) = 2
    /\ ~aead.result.ok

\* C13: initialize_pool for a pool id whose account exists fails and leaves
\* every pool account (root, count, min_pool_size, authority) as it was.
C13_PoolCreatedOnce ==
    [][ (last'.op = "initialize_pool" /\ last'.pool_id \in DOMAIN pools)
        => (/\ last'.result = "AccountInUse"
            /\ pools' = pools) ]_vars

\* C13 witness: a second initialize_pool with another min_pool_size was turned
\* down on a pool that holds a commitment.
C13_Witness ==
    /\ last.op = "initialize_pool"
    /\ last.result = "AccountInUse"
    /\ PoolOf(last).commitment_count = 1
    /\ PoolOf(last).min_pool_size # last.min_pool_size

DepositOk(call) == call.op = "deposit" /\ call.result = "Ok"

\* C15: commitment_count is 0 after initialize, grows by exactly 1 with every
\* successful deposit into the pool, and is changed by nothing else.
C15_CountMonotone ==
    [][ /\ \A p \in DOMAIN pools :
             /\ p \in DOMAIN pools'
             /\ pools'[p].commitment_count =
                    IF DepositOk(last') /\ last'.pool_id = p
                    THEN pools[p].commitment_count + 1
                    ELSE pools[p].commitment_count
        /\ \A p \in DOMAIN pools' \ DOMAIN pools : pools'[p].commitment_count = 0 ]_vars

\* C15 witness: a withdraw ran on a pool that two deposits had brought to 2.
C15_Witness ==
    /\ last.op = "withdraw"
    /\ PoolOf(last).commitment_count = 2
    /\ Len(leaves(last.pool_id)) = 2

\* The root obtained by applying the commitments one after the other to the
\* root of a new pool.
RECURSIVE SequentialRoot(_)
SequentialRoot(ls) ==
    IF ls = <<>> THEN Zero32
    ELSE XorBytes32(SequentialRoot(SubSeq(ls, 1, Len(ls) - 1)), ls[Len(ls)])

\* C16: whatever the interleaving of the serialized deposits with the other
\* instructions, the root of a pool is the root obtained by applying its
\* commitments sequentially in the order the deposits were granted.
C16_RootFollowsOrder ==
    \A p \in DOMAIN pools : pools[p].commitment_root = SequentialRoot(leaves(p))

\* C16 witness: two different commitments were deposited, with a withdraw
\* somewhere in between or after.
C16_Witness ==
    /\ 1 \in DOMAIN pools
    /\ Len(leaves(1)) = 2
    /\ leaves(1)[1] # leaves(1)[2]
    /\ nullifierAccounts # <<>>

ValidProofFor(zk_proof, nullifier) ==
    \E c \in Commitments, s \in Secrets : zk_proof = generate_zk_proof(c, nullifier, s)

\* C17: below min_pool_size every withdraw fails with InsufficientPoolSize; from
\* the min_pool_size-th deposit on a withdraw with a valid proof succeeds and
\* records its nullifier if the nullifier is unspent, and fails with
\* NullifierUsed if it repeats a recorded one.
C17_GateOpensAtThreshold ==
    [][ (last'.op = "withdraw")
        => LET pool == PoolOf(last')
               open == pool.commitment_count >= pool.min_pool_size
               valid == ValidProofFor(last'.zk_proof, last'.nullifier)
           IN  /\ ~open => last'.result = "InsufficientPoolSize"
               /\ (open /\ valid /\ last'.nullifier \notin Spent)
                     => (last'.result = "Ok" /\ last'.nullifier \in Spent')
               /\ (open /\ valid /\ last'.nullifier \in Spent)
                     => last'.result = "NullifierUsed" ]_vars

IsPrefix(a, b) == Len(a) <= Len(b) /\ SubSeq(b, 1, Len(a)) = a

\* C18: no instruction removes or overwrites a commitment account, and a
\* successful withdraw leaves every pool account and every commitment
\* account as it was.
C18_AppendOnly ==
    [][ /\ IsPrefix(commitmentAccounts, commitmentAccounts')
        /\ (last'.op = "withdraw" /\ last'.result = "Ok")
              => (pools' = pools /\ commitmentAccounts' = commitmentAccounts) ]_vars

\* C18 witness: a withdraw succeeded on a pool that holds two commitments.
C18_Witness ==
    /\ last.op = "withdraw"
    /\ last.result = "Ok"
    /\ Len(leaves(last.pool_id)) = 2

\* C14: a deposit into a pool that holds 2^Depth commitments fails with
\* PoolFull and changes nothing, and commitment_count never exceeds 2^Depth.
C14_PoolFullAtCapacity ==
    [][ /\ (last'.op = "deposit" /\ PoolOf(last').commitment_count = Pow2(Depth))
            => (/\ last'.result = "PoolFull"
                /\ pools' = pools
                /\ commitmentAccounts' = commitmentAccounts)
        /\ \A p \in DOMAIN pools' : pools'[p].commitment_count <= Pow2(Depth) ]_vars

\* C19: a deposit or a withdraw on one pool leaves the root, the count and
\* the min_pool_size of every other pool as they were, in every interleaving
\* of instructions on the two pools.
C19_PoolsIndependent ==
    [][ (last'.op \in {"deposit", "withdraw"})
        => \A q \in DOMAIN pools \ {last'.pool_id} :
              /\ q \in DOMAIN pools'
              /\ pools'[q].commitment_root = pools[q].commitment_root
              /\ pools'[q].commitment_count = pools[q].commitment_count
              /\ pools'[q].min_pool_size = pools[q].min_pool_size ]_vars

\* C19 witness: a deposit into pool 1 was made while pool 2 held a commitment
\* of its own.
C19_Witness ==
    /\ DepositOk(last)
    /\ last.pool_id = 1
    /\ 2 \in DOMAIN pools
    /\ Len(leaves(2)) = 1
    /\ pools[2].commitment_count = 1
    /\ pools[2].commitment_root = leaves(2)[1]

\* C20: two pools whose sequences of deposited commitments differ have
\* different roots.
C20_RootAttestsToSequence ==
    \A p, q \in DOMAIN pools :
        (leaves(p) # leaves(q)) => (pools[p].commitment_root # pools[q].commitment_root)

\* C21: with batch_size >= 1, after every add_to_batch the current batch holds
\* fewer than batch_size instructions; the add that brings it to batch_size
\* empties it and puts exactly one batch on the queue, every other add leaves
\* the queue alone.
C21_CurrentBatchBelowSize ==
    [][ (bp'.op = "add_to_batch" /\ bp.batch_size >= 1)
        => /\ Len(bp'.current_batch) < bp.batch_size
           /\ IF Len(bp.current_batch) + 1 = bp.batch_size
              THEN /\ bp'.current_batch = <<>>
                   /\ Len(bp'.batch_queue) = Len(bp.batch_queue) + 1
              ELSE /\ Len(bp'.current_batch) = Len(bp.current_batch) + 1
                   /\ bp'.batch_queue = bp.batch_queue ]_vars

\* C21 witness: an add just sealed a full batch of three instructions behind
\* an earlier batch.
C21_Witness ==
    /\ bp.op = "add_to_batch"
    /\ bp.batch_size = 3
    /\ bp.current_batch = <<>>
    /\ Len(bp.batch_queue) = 2
    /\ Len(bp.batch_queue[2].instructions) = 3

\* C22: force_seal moves a non-empty current batch to the queue and does
\* nothing on an empty one; no queued batch is empty and an empty seal
\* consumes no batch id.
C22_ForceSealSkipsEmpty ==
    [][ /\ (bp'.op = "force_seal")
            => IF bp.current_batch # <<>>
               THEN /\ bp'.batch_queue =
                         Append(bp.batch_queue, [id |-> bp.next_batch_id,
                                                 instructions |-> bp.current_batch])
                    /\ bp'.current_batch = <<>>
                    /\ bp'.next_batch_id = bp.next_batch_id + 1
               ELSE /\ bp'.batch_queue = bp.batch_queue
                    /\ bp'.current_batch = <<>>
                    /\ bp'.next_batch_id = bp.next_batch_id
        /\ \A i \in DOMAIN bp'.batch_queue : bp'.batch_queue[i].instructions # <<>> ]_vars

\* C22 witness: force_seal ran on an empty current batch after a forced seal
\* of two instructions.
C22_Witness ==
    /\ bp.op = "force_seal"
    /\ bp.current_batch = <<>>
    /\ Len(bp.batch_queue) = 1
    /\ Len(bp.batch_queue[1].instructions) = 2
    /\ bp.batch_size = 3
    /\ bp.next_batch_id = 2

RECURSIVE SumOver(_, _)
SumOver(m, keys) ==
    IF keys = {} THEN 0
    ELSE LET k == CHOOSE x \in keys : TRUE IN m[k] + SumOver(m, keys \ {k})

SumBalances(self) == SumOver(self.balances, DOMAIN self.balances)

\* C23: circulating_supply is the sum of all balances; a successful transfer
\* moves exactly amount from the sender to the receiver and keeps the sum and
\* circulating_supply; a failed mint, transfer or burn changes nothing.
C23_SupplyIsSumOfBalances ==
    [][ /\ token'.circulating_supply = SumBalances(token')
        /\ (token'.op = "transfer" /\ token'.result = "Ok")
              => /\ token'.circulating_supply = token.circulating_supply
                 /\ SumBalances(token') = SumBalances(token)
                 /\ (token'.from # token'.to)
                       => /\ balance_of(token', token'.from)
                                = balance_of(token, token'.from) - token'.amount
                          /\ balance_of(token', token'.to)
                                = balance_of(token, token'.to) + token'.amount
        /\ (token'.result # "Ok")
              => /\ token'.circulating_supply = token.circulating_supply
                 /\ \A h \in Holders : balance_of(token', h) = balance_of(token, h) ]_vars

\* C24: circulating_supply never exceeds total_supply, and a mint whose amount
\* would take it above total_supply fails with "Would exceed total supply",
\* also when circulating_supply + amount does not fit the machine word.
C24_MintCapped ==
    [][ /\ token'.circulating_supply <= token'.total_supply
        /\ (token'.op = "mint"
             /\ token.circulating_supply + token'.amount > token.total_supply)
              => /\ token'.result = "Would exceed total supply"
                 /\ token'.balances = token.balances
                 /\ token'.circulating_supply = token.circulating_supply ]_vars

\* The sum of the amounts of the standing delegations whose delegatee is a.
DelegatedTo(self, a) ==
    SumOver(self.delegated,
            { d \in DOMAIN self.delegations : self.delegations[d] = a })

\* C26: get_voting_power(a) is the sum of the amounts of the delegations
\* whose delegatee is a at that moment.
C26_PowerIsCurrentDelegations ==
    \A a \in Holders : get_voting_power(voting, a) = DelegatedTo(voting, a)

VotesOf(g, proposal_id) ==
    IF proposal_id \in DOMAIN g.voting.votes THEN g.voting.votes[proposal_id]
    ELSE EmptyProposalVotes

BallotsOf(g, proposal_id) ==
    IF proposal_id \in DOMAIN g.ballots THEN g.ballots[proposal_id] ELSE NoBallots

\* C25: for every proposal the yes_votes and no_votes of the Proposal equal the
\* yes_count and no_count the VotingSystem keeps for it, and each equals the
\* sum of the balances of the voters whose vote succeeded on that side; a
\* vote call that fails changes neither tally.
C25_TalliesAreVoterBalances ==
    [][ /\ \A pid \in DOMAIN gov'.proposals :
              /\ gov'.proposals[pid].yes_votes = VotesOf(gov', pid).yes_count
              /\ gov'.proposals[pid].no_votes = VotesOf(gov', pid).no_count
              /\ gov'.proposals[pid].yes_votes
                    = SumOver(BallotsOf(gov', pid).yes, DOMAIN BallotsOf(gov', pid).yes)
              /\ gov'.proposals[pid].no_votes
                    = SumOver(BallotsOf(gov', pid).no, DOMAIN BallotsOf(gov', pid).no)
        /\ (gov'.op = "vote" /\ gov'.result # "Ok")
              => \A pid \in DOMAIN gov.proposals :
                    /\ gov'.proposals[pid].yes_votes = gov.proposals[pid].yes_votes
                    /\ gov'.proposals[pid].no_votes = gov.proposals[pid].no_votes
                    /\ VotesOf(gov', pid).yes_count = VotesOf(gov, pid).yes_count
                    /\ VotesOf(gov', pid).no_count = VotesOf(gov, pid).no_count ]_vars

\* C27: the first successful execute_allocation of an id lowers the balance by
\* exactly the allocation amount and marks it executed; an execute_allocation
\* of an executed id fails and leaves the balance alone; the balance never
\* goes below zero.
C27_AllocationExecutedOnce ==
    [][ /\ treasury'.balance >= 0
        /\ (treasury'.op = "execute_allocation" /\ treasury'.arg \in DOMAIN treasury.allocations)
              => LET allocation == treasury.allocations[treasury'.arg]
                 IN  /\ allocation.executed
                           => /\ treasury'.result = "Allocation already executed"
                              /\ treasury'.balance = treasury.balance
                              /\ treasury'.allocations = treasury.allocations
                     /\ (treasury'.result = "Ok")
                           => /\ ~allocation.executed
                              /\ treasury'.balance = treasury.balance - allocation.amount
                              /\ treasury'.allocations[treasury'.arg].executed
                     /\ (treasury'.result # "Ok")
                           => treasury'.balance = treasury.balance ]_vars

\* C27 witness: the second execute_allocation of allocation 1 was turned down
\* with enough balance left to pay it again.
C27_Witness ==
    /\ treasury.op = "execute_allocation"
    /\ treasury.arg = 1
    /\ treasury.result = "Allocation already executed"
    /\ treasury.balance >= treasury.allocations[1].amount

\* C28: calculate_transaction_fee(amount) and calculate_bridge_fee(amount)
\* return floor(amount * fee_bp / 10000) for the configured basis points, for
\* every amount of the machine word.
C28_FeeIsFloorOfBasisPoints ==
    /\ (treasury.op = "calculate_transaction_fee")
          => /\ treasury.result = "Ok"
             /\ treasury.returned
                   = (treasury.arg * treasury.fee_config.transaction_fee_bp) \div 10000
    /\ (treasury.op = "calculate_bridge_fee")
          => /\ treasury.result = "Ok"
             /\ treasury.returned
                   = (treasury.arg * treasury.fee_config.bridge_fee_bp) \div 10000

\* Bit j of index.
BitOf(index, j) == (index \div Pow2(j)) % 2

\* The hash at level j on the way from the leaf to the root: at every level
\* the running hash is the left input of the node hash when that bit of index
\* is 0 and the right input when it is 1.
RECURSIVE LevelHash(_, _, _, _)
LevelHash(leaf, proof, index, j) ==
    IF j = 0 THEN leaf
    ELSE IF BitOf(index, j - 1) = 0
         THEN node_hash(LevelHash(leaf, proof, index, j - 1), proof[j])
         ELSE node_hash(proof[j], LevelHash(leaf, proof, index, j - 1))

\* C29: verify_merkle_proof returns true exactly when the hash recomputed
\* bottom-up from the leaf, with the bits of index choosing the side at each
\* level, equals root after the last sibling.
C29_RecomputesRootBottomUp ==
    mk.called
        => (mk.result = (LevelHash(mk.leaf, mk.proof, mk.index, Len(mk.proof)) = mk.root))

\* C29 witness: a path of the full depth was accepted for a leaf at an index
\* whose bits differ from level to level.
C29_Witness ==
    /\ mk.called
    /\ mk.result
    /\ Len(mk.proof) = Depth
    /\ mk.index = 1
    /\ mk.proof[1] # mk.leaf

\* C30: verify_merkle_proof returns true only for a path whose length is the
\* depth of the tree.
C30_PathLengthIsDepth ==
    (mk.called /\ mk.result) => (Len(mk.proof) = Depth)

\* C31: verify_zk_proof returns false for every byte string whose length is not
\* 32, the empty one included, and its result depends on its arguments only:
\* a call repeated with the same arguments in a later state returns the same.
C31_MalformedProofRejected ==
    [][zkv'.called =>
          /\ (zkv'.proof.len # 32) => (zkv'.result = FALSE)
          /\ (zkv.called /\ zkv'.proof = zkv.proof /\ zkv'.commitment = zkv.commitment
                /\ zkv'.nullifier = zkv.nullifier)
                => (zkv'.result = zkv.result)]_vars

\* C31 witness: a digest cut by one byte was turned down after a withdrawal
\* had been accepted with the whole digest.
C31_Witness ==
    /\ zkv.called
    /\ zkv.proof.len = 31
    /\ zkv.result = FALSE
    /\ nullifierAccounts # <<>>

\* C32: decrypt_data applied to the untouched ciphertext and tag of
\* encrypt_data(p, k, n), with the same nonce and a key other than k, returns
\* the authentication error and no plaintext.
C32_WrongKeyRejected ==
    (aead.stage = "decrypted" /\ aead.tampered = "no"
        /\ aead.dec_nonce = aead.nonce /\ aead.dec_secret # aead.shared_secret)
        => (aead.result = AuthFailed)

\* C33: the nullifier that withdraw_from_pool sends for a commitment is
\* generate_nullifier applied to the randomness that deposit_to_pool drew for
\* that commitment, so it cannot be computed from the commitment alone.
C33_NullifierFromRandomness ==
    (wallet.op = "withdraw_from_pool")
        => /\ wallet.nullifier =
                 generate_nullifier(wallet.deposited[wallet.commitment], wallet.commitment)
           /\ wallet.nullifier # generate_nullifier(wallet.commitment, wallet.commitment)

\* C34: the batch_id that protect_transaction returns at level Enhanced is the
\* id of the batch holding the submitted instruction: the id of the batch just
\* queued when the instruction sealed it, and otherwise the id under which the
\* open batch will be queued.
C34_BatchIdNamesOwnBatch ==
    [][(svc'.op = "protect_transaction" /\ svc'.priority = "Enhanced")
          => LET before == svc.batch_processor
                 after == svc'.batch_processor
             IN  IF Len(after.batch_queue) > Len(before.batch_queue)
                 THEN svc'.batch_id = after.batch_queue[Len(after.batch_queue)].id
                 ELSE svc'.batch_id = after.next_batch_id]_vars

\* C36: is_safe_to_execute(slot) is false for every slot below the unlock slot
\* that calculate_unlock_slot gives (current slot + min_lock_duration) and true
\* from that slot on.
C36_SafeOnlyFromUnlockSlot ==
    (svc.op = "is_safe_to_execute")
        => (svc.safe <=> (svc.slot >= calculate_unlock_slot(svc.time_lock)))

\* Occurrences of x in a sequence, and in the instructions a BatchProcessor holds.
CountIn(q, x) == Cardinality({ i \in DOMAIN q : q[i] = x })

RECURSIVE CountQueued(_, _)
CountQueued(queue, x) ==
    IF queue = <<>> THEN 0
    ELSE CountIn(Head(queue).instructions, x) + CountQueued(Tail(queue), x)

CountHeld(self, x) == CountQueued(self.batch_queue, x) + CountIn(self.current_batch, x)

\* C35: queued batches have strictly increasing ids from 1 up; process_batch
\* returns the instructions of the oldest queued batch and removes it, or
\* returns nothing and changes nothing when the queue is empty; an instruction
\* added is held until exactly one process_batch call returns it.
C35_QueueIsFifo ==
    [][ /\ \A i \in DOMAIN bp'.batch_queue :
              /\ bp'.batch_queue[i].id >= 1
              /\ bp'.batch_queue[i].id < bp'.next_batch_id
              /\ (i > 1) => (bp'.batch_queue[i - 1].id < bp'.batch_queue[i].id)
        /\ (bp.next_batch_id = 1 /\ bp'.batch_queue # <<>>)
              => (bp'.batch_queue[1].id = 1)
        /\ (bp'.op = "process_batch")
              => IF bp.batch_queue # <<>>
                 THEN /\ bp'.returned = bp.batch_queue[1].instructions
                      /\ bp'.batch_queue = Tail(bp.batch_queue)
                      /\ bp'.current_batch = bp.current_batch
                      /\ \A x \in Instructions :
                            CountHeld(bp, x) = CountHeld(bp', x) + CountIn(bp'.returned, x)
                 ELSE /\ bp'.returned = <<>>
                      /\ bp'.batch_queue = <<>>
                      /\ bp'.current_batch = bp.current_batch
                      /\ bp'.next_batch_id = bp.next_batch_id
        /\ (bp'.op = "add_to_batch")
              => \E y \in Instructions : \A x \in Instructions :
                    CountHeld(bp', x) = CountHeld(bp, x) + (IF x = y THEN 1 ELSE 0)
        /\ (bp'.op \in {"force_seal", "shuffle_batch"})
              => \A x \in Instructions : CountHeld(bp', x) = CountHeld(bp, x) ]_vars

\* C35 witness: process_batch returned the older of two queued batches and left
\* the newer one, which holds other instructions, on the queue.
C35_Witness ==
    /\ bp.op = "process_batch"
    /\ bp.returned # <<>>
    /\ Len(bp.batch_queue) = 1
    /\ bp.batch_queue[1].id = 2
    /\ bp.batch_queue[1].instructions # bp.returned

\* The last k elements of a sequence, all of it when it is shorter.
LastOf(q, k) == IF Len(q) <= k THEN q ELSE SubSeq(q, Len(q) - k + 1, Len(q))

\* C37: for every max_history, 0 included, the history holds at most
\* max_history events, and they are the last recorded ones in arrival order.
C37_HistoryBounded ==
    /\ Len(det.history) <= det.max_history
    /\ det.history = LastOf(det.recorded, det.max_history)

\* With max_history of one or more, the history is the last max_history
\* events recorded.
HistoryBoundedFromOne ==
    (det.max_history >= 1)
        => /\ Len(det.history) <= det.max_history
           /\ det.history = LastOf(det.recorded, det.max_history)

====
